---- MODULE Spec2Model ----
(***************************************************************************)
(* Adobe Connect Downloader (adobe_downloader.py): the per-URL             *)
(* reconstruction pipeline process_single_url and its helpers              *)
(* get_id_and_type, get_account_id, construct_zip_urls, download_zip_file, *)
(* find_media_streams and cleanup_temp_directory.                          *)
(*                                                                         *)
(* Text (URLs, page bodies, file names) is a sequence of one-character     *)
(* strings, so that regular expressions, str.lower, str.endswith, split    *)
(* and int() are computed character by character as the code does.         *)
(* Python's None for a text value is the empty sequence: the code only     *)
(* ever tests such values for truthiness.                                  *)
(***************************************************************************)
EXTENDS Integers, Sequences, FiniteSets, TLC

VARIABLES
  pc,               \* position inside process_single_url ("idle" between jobs)
  jobs,             \* number of process_single_url calls started so far
  url,              \* process_single_url: url
  custom_filename,  \* process_single_url: custom_filename (NoText for None)
  recording_id,     \* process_single_url: recording_id (NoText for None)
  id_type,          \* process_single_url: id_type
  output_filename,  \* file_ops.safe_filename(output_filename), the destination name
  created,          \* os.makedirs of this job created the working directory
  dest,             \* main download directory: file name -> number of the job that wrote it (0: before the run)
  workdirs,         \* main download directory: working directory name (safe id) -> its content
  zip_urls,         \* process_single_url: zip_urls
  tried,            \* number of candidates download_zip_file has been called on
  attempts,         \* fetch harness: the download_zip_file calls of this job and how each ended
  media_streams,    \* process_single_url: media_streams
  netlog,           \* HTTP requests of this job, in order
  ffcalls,          \* ffmpeg_handler calls of this job, in order, with their results
  outcome,          \* how the job ended ("none" while it runs)
  ret,              \* what process_single_url returned ("raised": an exception escaped)
  rmtree_failed,    \* shutil.rmtree raised OSError in this job's cleanup
  destAtStart,      \* dest when the job started
  resp,             \* get_id_and_type harness: the response session.get produced
  listing,          \* find_media_streams harness: the order os.listdir produced
  account_resp,     \* construct_zip_urls harness: the response session.get produced inside get_account_id
  ffmpeg_installed, \* FFmpegHandler() finds the ffmpeg executable
  mpc,              \* position inside main ("job": not in main, a process_single_url call on its own)
  argv,             \* the command line main was started with
  args,             \* main: args, the Namespace parse_args returned: attribute name -> value
  lines,            \* main: lines, the rows csv.reader produced
  row_index,        \* main: the number of rows the batch loop has gone through
  exit_code,        \* the exit status of the process (-1 while it runs)
  calls,            \* the process_single_url calls of the run, in order: (url, custom_filename)
  batch_complete    \* "Batch processing complete." has been logged

vars == <<pc, jobs, url, custom_filename, recording_id, id_type, output_filename,
          created, dest, workdirs, zip_urls, tried, attempts, media_streams,
          netlog, ffcalls, outcome, ret, rmtree_failed, destAtStart, resp, listing,
          account_resp, ffmpeg_installed,
          mpc, argv, args, lines, row_index, exit_code, calls, batch_complete>>

\* the state of main
mainvars == <<ffmpeg_installed, mpc, argv, args, lines, row_index, exit_code, calls, batch_complete>>

\* the state of one process_single_url call and of the download directory
jobvars == <<pc, jobs, url, custom_filename, recording_id, id_type, output_filename,
             created, dest, workdirs, zip_urls, tried, attempts, media_streams,
             netlog, ffcalls, outcome, ret, rmtree_failed, destAtStart, resp, listing,
             account_resp>>

NoText == <<>>

----------------------------------------------------------------------------
(* Characters and strings *)

UpperChars == <<"A","B","C","D","E","F","G","H","I","J","K","L","M","N","O","P","Q","R","S","T","U","V","W","X","Y","Z">>
LowerChars == <<"a","b","c","d","e","f","g","h","i","j","k","l","m","n","o","p","q","r","s","t","u","v","w","x","y","z">>
DigitChars == <<"0","1","2","3","4","5","6","7","8","9">>

UpperSet == {UpperChars[k] : k \in DOMAIN UpperChars}
LowerSet == {LowerChars[k] : k \in DOMAIN LowerChars}
DigitSet == {DigitChars[k] : k \in DOMAIN DigitChars}

IsUpper(c) == c \in UpperSet
IsLower(c) == c \in LowerSet
IsDigit(c) == c \in DigitSet
IsSpace(c) == c \in {" ", "\t", "\n"}

\* str.lower on one character
LowerOf == [c \in UpperSet |-> LowerChars[CHOOSE k \in DOMAIN UpperChars : UpperChars[k] = c]]
Lower(c) == IF IsUpper(c) THEN LowerOf[c] ELSE c

\* str.lower
LowerStr(s) == [k \in 1..Len(s) |-> Lower(s[k])]

\* str.endswith
EndsWith(s, suf) ==
  /\ Len(s) >= Len(suf)
  /\ SubSeq(s, Len(s) - Len(suf) + 1, Len(s)) = suf

\* s[i:]
From(s, i) == SubSeq(s, i, Len(s))

\* str.find(chars in cs): the first position >= i of s holding a character of cs, Len(s)+1 if none
FirstOf(s, i, cs) ==
  LET hits == {k \in i..Len(s) : s[k] \in cs}
  IN IF hits = {} THEN Len(s) + 1 ELSE CHOOSE k \in hits : \A j \in hits : k <= j

\* str.rfind(c): the last position of s holding c, 0 if none
LastOf(s, c) ==
  LET hits == {k \in 1..Len(s) : s[k] = c}
  IN IF hits = {} THEN 0 ELSE CHOOSE k \in hits : \A j \in hits : k >= j

\* str.strip('/')
StripSlashes(s) ==
  LET keep == {k \in 1..Len(s) : s[k] # "/"}
  IN IF keep = {} THEN <<>>
     ELSE SubSeq(s, CHOOSE k \in keep : \A j \in keep : k <= j,
                    CHOOSE k \in keep : \A j \in keep : k >= j)

DigitValue == [c \in DigitSet |-> (CHOOSE k \in DOMAIN DigitChars : DigitChars[k] = c) - 1]

\* int() of a string of decimal digits
RECURSIVE ToInt(_)
ToInt(ds) ==
  IF ds = <<>> THEN 0
  ELSE ToInt(SubSeq(ds, 1, Len(ds) - 1)) * 10 + DigitValue[ds[Len(ds)]]

\* str.isdigit
IsDigitStr(s) == s # <<>> /\ \A k \in 1..Len(s) : IsDigit(s[k])

----------------------------------------------------------------------------
(* Regular expressions of the shape  lit \s* lit \s* ... lit (\d+) post     *)
(* re.search returns the capture of the leftmost match, NoText if none.     *)

\* the literal lit occurs in s at position i (case-insensitively under re.IGNORECASE)
MatchLit(s, i, lit, icase) ==
  /\ i + Len(lit) - 1 <= Len(s)
  /\ \A k \in 1..Len(lit) :
       IF icase THEN Lower(s[i + k - 1]) = Lower(lit[k]) ELSE s[i + k - 1] = lit[k]

\* \s* from position i: the first position >= i that holds no whitespace
SkipSpace(s, i) ==
  LET stops == {k \in i..Len(s) : ~IsSpace(s[k])}
  IN IF stops = {} THEN Len(s) + 1 ELSE CHOOSE k \in stops : \A j \in stops : k <= j

\* \d+ from position i: the first position >= i that holds no digit
DigitsEnd(s, i) ==
  LET stops == {k \in i..Len(s) : ~IsDigit(s[k])}
  IN IF stops = {} THEN Len(s) + 1 ELSE CHOOSE k \in stops : \A j \in stops : k <= j

\* the literals p.lits[k..] separated by \s* (and followed by \s* when p.spaceLast),
\* matched from position i: the position after them, 0 when they do not match
RECURSIVE MatchLits(_, _, _, _)
MatchLits(p, s, i, k) ==
  IF k > Len(p.lits) THEN i
  ELSE IF ~MatchLit(s, i, p.lits[k], p.icase) THEN 0
  ELSE LET j == i + Len(p.lits[k])
       IN MatchLits(p, s, IF k < Len(p.lits) \/ p.spaceLast THEN SkipSpace(s, j) ELSE j, k + 1)

\* the capture (\d+) of pattern p matched at position i of s, NoText when it does not match there
MatchAt(p, s, i) ==
  LET j == MatchLits(p, s, i, 1)
      e == IF j = 0 THEN 0 ELSE DigitsEnd(s, j)
  IN IF j # 0 /\ e > j /\ MatchLit(s, e, p.post, p.icase) THEN SubSeq(s, j, e - 1) ELSE NoText

\* re.search(p, s): group(1) of the leftmost match, NoText when there is none
ReSearch(p, s) ==
  LET hits == {i \in 1..Len(s) : MatchAt(p, s, i) # NoText}
  IN IF hits = {} THEN NoText
     ELSE MatchAt(p, s, CHOOSE i \in hits : \A j \in hits : i <= j)

----------------------------------------------------------------------------
(* urllib.parse.urlparse of scheme://netloc/path;params?query#fragment *)

UrlScheme(u) ==
  LET c == FirstOf(u, 1, {":"}) IN IF c > Len(u) THEN <<>> ELSE SubSeq(u, 1, c - 1)

\* what follows "scheme:"
UrlAfterScheme(u) ==
  LET c == FirstOf(u, 1, {":"}) IN IF c > Len(u) THEN u ELSE From(u, c + 1)

HasNetloc(u) ==
  LET r == UrlAfterScheme(u) IN Len(r) >= 2 /\ SubSeq(r, 1, 2) = <<"/","/">>

UrlNetloc(u) ==
  LET r == UrlAfterScheme(u)
  IN IF HasNetloc(u) THEN SubSeq(r, 3, FirstOf(r, 3, {"/", "?", "#"}) - 1) ELSE <<>>

\* what follows the netloc: path, params, query and fragment
UrlTail(u) ==
  LET r == UrlAfterScheme(u)
  IN IF HasNetloc(u) THEN From(r, FirstOf(r, 3, {"/", "?", "#"})) ELSE r

\* urllib.parse._splitparams: the path without the ;params of its last segment
SplitParams(p) ==
  LET i == FirstOf(p, IF LastOf(p, "/") = 0 THEN 1 ELSE LastOf(p, "/"), {";"})
  IN SubSeq(p, 1, i - 1)

\* urlparse(u).path
UrlPath(u) ==
  LET t  == UrlTail(u)
      nf == SubSeq(t, 1, FirstOf(t, 1, {"#"}) - 1)
      nq == SubSeq(nf, 1, FirstOf(nf, 1, {"?"}) - 1)
  IN SplitParams(nq)

----------------------------------------------------------------------------
(* get_id_and_type *)

\* An HTTP response to a page probe: kind "ok" (status below 400), "http_error"
\* (raise_for_status raises) or "net_error" (session.get raises), and the body.
Response(kind, text) == [kind |-> kind, text |-> text]

\* the `patterns` list of get_id_and_type, all searched with re.IGNORECASE
patterns == <<
  [lits |-> << <<"\"","s","c","o","-","i","d","\"">>, <<":">>, <<"\"">> >>,
   spaceLast |-> FALSE, post |-> <<"\"">>, icase |-> TRUE],
  [lits |-> << <<"s","c","o","-","i","d","=">> >>,
   spaceLast |-> FALSE, post |-> <<>>, icase |-> TRUE],
  [lits |-> << <<"r","e","c","o","r","d","i","n","g","-","i","d","=">> >>,
   spaceLast |-> FALSE, post |-> <<>>, icase |-> TRUE],
  [lits |-> << <<"s","c","o","i","d",":">> >>,
   spaceLast |-> FALSE, post |-> <<>>, icase |-> TRUE] >>

\* for p in patterns: the capture of the first pattern, from index k on, that matches
RECURSIVE PatternLoop(_, _)
PatternLoop(text, k) ==
  IF k > Len(patterns) THEN NoText
  ELSE LET found_id == ReSearch(patterns[k], text)
       IN IF found_id # NoText THEN found_id ELSE PatternLoop(text, k + 1)

\* the try block: the SCO-ID found in the page, NoText when the fetch raised or nothing matched
ScoIdSearch(r) == IF r.kind = "ok" THEN PatternLoop(r.text, 1) ELSE NoText

IsPathIdChar(c) == IsUpper(c) \/ IsLower(c) \/ IsDigit(c) \/ c \in {"_", "-"}

\* Variant of PathIdSearch: the pattern anchored at both ends. C10 fails under it.
PathIdSearchAnchored(s) ==
  IF s # <<>> /\ \A k \in 1..Len(s) : IsPathIdChar(s[k]) THEN s ELSE NoText

\* re.search(r'([a-zA-Z0-9_-]+)$', s): the leftmost match that reaches the end of s
PathIdSearch(s) ==
  LET hits == {i \in 1..Len(s) : \A k \in i..Len(s) : IsPathIdChar(s[k])}
  IN IF hits = {} THEN NoText ELSE From(s, CHOOSE i \in hits : \A j \in hits : i <= j)

\* path_part.split('?')[0]
BeforeQuestionMark(s) == SubSeq(s, 1, FirstOf(s, 1, {"?"}) - 1)

\* the fallback to the path ID
PathIdFallback(meeting_url) ==
  LET path_part == StripSlashes(UrlPath(meeting_url))
      found_id  == PathIdSearch(BeforeQuestionMark(path_part))
  IN IF found_id # NoText THEN <<found_id, "path-id">> ELSE <<NoText, "None">>

\* Variant of GetIdAndType: the path looked at before the page. C9 fails under it.
GetIdAndTypePathFirst(meeting_url, r) ==
  LET found == PathIdFallback(meeting_url)
      found_id == ScoIdSearch(r)
  IN IF found[1] # NoText THEN found
     ELSE IF found_id # NoText THEN <<found_id, "sco-id">> ELSE <<NoText, "None">>

\* get_id_and_type(meeting_url, session), r being what session.get produced
GetIdAndType(meeting_url, r) ==
  LET found_id == ScoIdSearch(r)
  IN IF found_id # NoText THEN <<found_id, "sco-id">> ELSE PathIdFallback(meeting_url)

----------------------------------------------------------------------------
(* get_account_id and construct_zip_urls *)

account_pattern ==
  [lits |-> << <<"a","c","c","o","u","n","t","_","i","d">>, <<"=">> >>,
   spaceLast |-> TRUE, post |-> <<>>, icase |-> FALSE]

\* Variant of GetAccountId: an HTTP error status treated as a failure of the
\* probe, as get_id_and_type does. C19 fails under it.
GetAccountIdChecked(r) ==
  IF r.kind # "ok" THEN NoText ELSE ReSearch(account_pattern, r.text)

\* get_account_id: no raise_for_status, so an error page is searched too
GetAccountId(r) ==
  IF r.kind = "net_error" THEN NoText ELSE ReSearch(account_pattern, r.text)

UrlBase(meeting_url) == UrlScheme(meeting_url) \o <<":","/","/">> \o UrlNetloc(meeting_url)

ZipSuffix == <<".","z","i","p","?","d","o","w","n","l","o","a","d","=","z","i","p">>
OutputZip == <<"o","u","t","p","u","t">> \o ZipSuffix
OutputDir == <<"/","o","u","t","p","u","t","/">>

\* list(dict.fromkeys(urls)): first occurrences, in order
RECURSIVE Dedup(_)
Dedup(urls) ==
  IF urls = <<>> THEN <<>>
  ELSE LET front == Dedup(SubSeq(urls, 1, Len(urls) - 1))
           last  == urls[Len(urls)]
       IN IF \E k \in DOMAIN front : front[k] = last THEN front ELSE Append(front, last)

\* the urls list before deduplication
ZipUrlShapes(meeting_url, id, account_id) ==
  LET base == UrlBase(meeting_url)
      a == << base \o <<"/">> \o id \o OutputDir \o id \o ZipSuffix,
              base \o <<"/">> \o id \o OutputDir \o OutputZip >>
      b == << base \o <<"/","p">> \o id \o OutputDir \o id \o ZipSuffix,
              base \o <<"/","p">> \o id \o OutputDir \o OutputZip >>
      c == IF account_id # NoText
           THEN << base \o <<"/","c","o","n","t","e","n","t","/">> \o account_id \o <<"/">> \o id
                     \o <<"-","1">> \o OutputDir \o id \o <<"-","1">> \o ZipSuffix,
                   base \o <<"/","c","o","n","t","e","n","t","/">> \o account_id \o <<"/">> \o id
                     \o <<"-","1">> \o OutputDir \o OutputZip >>
           ELSE <<>>
  IN a \o b \o c

\* Variant of ConstructZipUrls: the list returned as built. C11 fails under it.
ConstructZipUrlsAsBuilt(meeting_url, id, r) == ZipUrlShapes(meeting_url, id, GetAccountId(r))

\* construct_zip_urls(meeting_url, recording_id, id_type, session), r being what
\* session.get produced inside get_account_id
ConstructZipUrls(meeting_url, id, r) == Dedup(ZipUrlShapes(meeting_url, id, GetAccountId(r)))

----------------------------------------------------------------------------
(* find_media_streams *)

\* os.path.join(extract_folder, filename) and os.path.basename
Join(folder, filename) == <<folder, filename>>
Basename(path) == path[2]

IsAlnum(c) == IsUpper(c) \/ IsLower(c) \/ IsDigit(c)

\* Variant of RoleMatch: the pattern without its underscore. C8 fails under it.
RoleMatchAnySeparator(filename) ==
  LET stops == {k \in 1..Len(filename) : ~IsAlnum(filename[k])}
      n == IF stops = {} THEN Len(filename) + 1 ELSE CHOOSE k \in stops : \A j \in stops : k <= j
  IN IF n > 1 THEN SubSeq(filename, 1, n - 1) ELSE NoText

\* re.match(r'([a-zA-Z0-9]+)_', filename): group(1), NoText when there is no match
RoleMatch(filename) ==
  LET stops == {k \in 1..Len(filename) : ~IsAlnum(filename[k])}
      n == IF stops = {} THEN Len(filename) + 1 ELSE CHOOSE k \in stops : \A j \in stops : k <= j
  IN IF n > 1 /\ n <= Len(filename) /\ filename[n] = "_" THEN SubSeq(filename, 1, n - 1) ELSE NoText

\* streams[key].append(path) on the defaultdict
Appended(streams, key, path) ==
  [x \in DOMAIN streams \cup {key} |->
     IF x = key THEN (IF key \in DOMAIN streams THEN Append(streams[key], path) ELSE <<path>>)
     ELSE streams[x]]

\* the scan loop over os.listdir(extract_folder), entries 1..k done
RECURSIVE ScanLoop(_, _, _)
ScanLoop(extract_folder, entries, k) ==
  IF k = 0 THEN <<>>
  ELSE LET streams  == ScanLoop(extract_folder, entries, k - 1)
           filename == entries[k]
       IN IF EndsWith(LowerStr(filename), <<".","f","l","v">>) /\ RoleMatch(filename) # NoText
          THEN Appended(streams, LowerStr(RoleMatch(filename)), Join(extract_folder, filename))
          ELSE streams

\* os.path.splitext(name)[0]: the name up to its last dot, leading dots not counted
SplitExtRoot(name) ==
  LET d == LastOf(name, ".")
  IN IF d > 0 /\ \E k \in 1..(d - 1) : name[k] # "." THEN SubSeq(name, 1, d - 1) ELSE name

\* s.split('_')[-1]
AfterLastUnderscore(s) == From(s, LastOf(s, "_") + 1)

\* Variant of sort_key: split('_')[1] in place of split('_')[-1]. C7 fails under it.
sort_key_second_field(f) ==
  LET root == SplitExtRoot(Basename(f))
      rest == From(root, FirstOf(root, 1, {"_"}) + 1)
      field == SubSeq(rest, 1, FirstOf(rest, 1, {"_"}) - 1)
  IN IF IsDigitStr(field) THEN ToInt(field) ELSE 0

\* the sort_key lambda
sort_key(f) ==
  LET last == AfterLastUnderscore(SplitExtRoot(Basename(f)))
  IN IF IsDigitStr(last) THEN ToInt(last) ELSE 0

\* x put into the sorted list after every element whose key is not greater
InsertByKey(sortedList, x) ==
  LET before == {k \in 1..Len(sortedList) : sort_key(sortedList[k]) <= sort_key(x)}
      n == Cardinality(before)
  IN SubSeq(sortedList, 1, n) \o <<x>> \o SubSeq(sortedList, n + 1, Len(sortedList))

\* sorted(files, key=sort_key): a stable sort
RECURSIVE Sorted(_)
Sorted(files) ==
  IF files = <<>> THEN <<>>
  ELSE InsertByKey(Sorted(SubSeq(files, 1, Len(files) - 1)), files[Len(files)])

\* find_media_streams(extract_folder), entries being what os.listdir produced
FindMediaStreams(extract_folder, entries) ==
  LET streams == ScanLoop(extract_folder, entries, Len(entries))
  IN [stream_name \in DOMAIN streams |-> Sorted(streams[stream_name])]

screenshare == <<"s","c","r","e","e","n","s","h","a","r","e">>
cameravoip  == <<"c","a","m","e","r","a","v","o","i","p">>

----------------------------------------------------------------------------
(* Names and paths of process_single_url *)

\* file_ops.safe_filename: characters a file name cannot hold become "_"
SafeFilename(name) ==
  [k \in 1..Len(name) |->
     IF name[k] \in {"/", "\\", ":", "*", "?", "\"", "<", ">", "|"} THEN "_" ELSE name[k]]

\* the output file name: the custom one or recording_<id>.mp4, forced to end in .mp4
OutputFilename(custom, safe_recording_id) ==
  LET name == IF custom # NoText THEN custom
              ELSE <<"r","e","c","o","r","d","i","n","g","_">> \o safe_recording_id \o <<".","m","p","4">>
  IN IF ~EndsWith(LowerStr(name), <<".","m","p","4">>) THEN name \o <<".","m","p","4">> ELSE name

\* the file at zip_path; NoZip when there is none. complete is whether a whole
\* response body was written, archive what that body is.
NoArchive == [kind |-> "none", files |-> {}]
NoZip == [present |-> FALSE, complete |-> FALSE, archive |-> NoArchive]
ZipFile(complete, archive) == [present |-> TRUE, complete |-> complete, archive |-> archive]

\* A working directory: the archive at zip_path, the names of the entries
\* extracted from archives, and which of the files ffmpeg writes are there
\* (normalized_video.mkv, normalized_audio.m4a and the merged final video).
EmptyDir == [zip |-> NoZip, entries |-> {}, outs |-> {}]

\* Variant of DestExists: the existence test left out. C1 fails under it.
DestExistsUntested(files, name) == FALSE

\* Variant of DestExists: the test made on the name without its extension.
\* C4 fails under it.
DestExistsWithoutExt(files, name) == SubSeq(name, 1, Len(name) - 4) \in DOMAIN files

\* os.path.exists(final_video_path_dest)
DestExists(files, name) == name \in DOMAIN files

\* os.path.exists(zip_path)
ZipExists(dirs, id) == dirs[id].zip.present

\* os.makedirs(temp_output_dir, exist_ok=True)
MakeDirs(dirs, id) ==
  [d \in DOMAIN dirs \cup {id} |-> IF d \in DOMAIN dirs THEN dirs[d] ELSE EmptyDir]

\* cleanup_temp_directory(dir_path): shutil.rmtree removes the directory, or
\* raises OSError (removed = FALSE), which is logged and the directory stays
CleanupTempDirectory(dirs, id, removed) ==
  IF id \in DOMAIN dirs /\ removed THEN [d \in DOMAIN dirs \ {id} |-> dirs[d]] ELSE dirs

\* a file ffmpeg wrote into a working directory
WithOutput(dirs, id, out) ==
  [dirs EXCEPT ![id].outs = @ \cup {out}]

\* shutil.move(final_video_path_temp, final_video_path_dest)
Moved(files, name, job) ==
  [n \in DOMAIN files \cup {name} |-> IF n = name THEN job ELSE files[n]]

\* The entries os.listdir(temp_output_dir) returns, in no particular order. The
\* files ffmpeg writes are left out: their names end in .mkv, .m4a and .mp4, so
\* the scan of find_media_streams skips them wherever they stand.
DirEntries(dirs, id) ==
  dirs[id].entries \cup (IF dirs[id].zip.present THEN {id \o <<".","z","i","p">>} ELSE {})

\* all orders of a set of entries
RECURSIVE Orders(_)
Orders(S) ==
  IF S = {} THEN {<<>>}
  ELSE UNION {{<<x>> \o rest : rest \in Orders(S \ {x})} : x \in S}

\* what os.listdir(temp_output_dir) can return: the entries in any order
ListDir(dirs, id) == IF id \in DOMAIN dirs THEN Orders(DirEntries(dirs, id)) ELSE {}

----------------------------------------------------------------------------
(* download_zip_file *)

\* What a GET of a candidate URL produces: raises is "connect" when session.get
\* raises, "stream" when iter_content raises after the file was opened, "none"
\* otherwise; status and html are r.status_code and 'html' in Content-Type;
\* archive is what the body is.
ZipResponse(raises, status, html, archive) ==
  [raises |-> raises, status |-> status, html |-> html, archive |-> archive]

\* Variant of DownloadResult: the content-type test left out. C5 fails under it.
DownloadResultAnyContentType(r) ==
  IF r.raises = "connect" THEN "raised_connect"
  ELSE IF r.status # 200 THEN "rejected_status"
  ELSE IF r.raises = "stream" THEN "raised_stream"
  ELSE "ok"

\* How download_zip_file ends on response r
DownloadResult(r) ==
  IF r.raises = "connect" THEN "raised_connect"
  ELSE IF r.status # 200 THEN "rejected_status"
  ELSE IF r.html THEN "rejected_html"
  ELSE IF r.raises = "stream" THEN "raised_stream"
  ELSE "ok"

\* download_zip_file returns True
DownloadZipFile(r) == DownloadResult(r) = "ok"

\* Variant of ZipAfterDownload: the file opened for appending, so that a body
\* written after a broken one does not make a zip archive. C17 fails under it.
ZipAfterDownloadAppending(before, r) ==
  CASE DownloadResult(r) = "ok" ->
         IF before.present THEN ZipFile(TRUE, [kind |-> "bad", files |-> {}])
         ELSE ZipFile(TRUE, r.archive)
    [] DownloadResult(r) = "raised_stream" -> ZipFile(FALSE, [kind |-> "bad", files |-> {}])
    [] OTHER -> before

\* The file at output_path after download_zip_file: open(output_path, 'wb') is
\* reached only past the status and content-type tests, and truncates the file
ZipAfterDownload(before, r) ==
  CASE DownloadResult(r) = "ok"            -> ZipFile(TRUE, r.archive)
    [] DownloadResult(r) = "raised_stream" -> ZipFile(FALSE, [kind |-> "bad", files |-> {}])
    [] OTHER                               -> before

----------------------------------------------------------------------------
(* The inputs of the runs *)

MaxJobs == 2

Urls == { <<"h","t","t","p",":","/","/","h","/","p","1","/">>, <<"h","t","t","p",":","/","/","h","/">> }

CustomFilenames == { NoText, <<"l","e","c">> }

\* what a GET of the meeting page produces
PageResponses == {
  Response("net_error", <<>>),
  Response("ok", <<"<","h","t","m","l",">">>),
  Response("ok", <<"s","c","o","-","i","d","=","1","2">>),
  Response("ok", <<"a","c","c","o","u","n","t","_","i","d"," ","="," ","7">>),
  Response("http_error", <<"a","c","c","o","u","n","t","_","i","d","=","7"," ","s","c","o","-","i","d","=","1","2">>) }

ss1  == <<"s","c","r","e","e","n","s","h","a","r","e","_","1",".","f","l","v">>
ss2  == <<"s","c","r","e","e","n","s","h","a","r","e","_","2",".","f","l","v">>
ss10 == <<"s","c","r","e","e","n","s","h","a","r","e","_","1","0",".","f","l","v">>
cv1  == <<"c","a","m","e","r","a","v","o","i","p","_","1",".","f","l","v">>

\* What a downloaded body can be: a zip archive of some files ("valid"), not a
\* zip archive ("bad": zipfile.BadZipFile), or an archive whose extraction
\* raises another exception after the files listed were extracted ("encrypted":
\* RuntimeError at the first password-protected member)
Archives == {
  [kind |-> "valid", files |-> {cv1}],
  [kind |-> "valid", files |-> {ss1}],
  [kind |-> "valid", files |-> {ss2, ss10, cv1}],
  [kind |-> "bad", files |-> {}],
  [kind |-> "encrypted", files |-> {ss1}] }

ZipResponses ==
  { ZipResponse("connect", 0, FALSE, NoArchive),
    ZipResponse("none", 404, TRUE, NoArchive),
    ZipResponse("none", 404, FALSE, NoArchive),
    ZipResponse("none", 200, TRUE, NoArchive),
    ZipResponse("stream", 200, FALSE, NoArchive) }
  \cup { ZipResponse("none", 200, FALSE, a) : a \in Archives }

\* the main download directory before the run: empty, or holding a file
InitialDests == { <<>>, [n \in { <<"l","e","c",".","m","p","4">> } |-> 0] }

\* working directories left by an earlier, interrupted run: none, or one that
\* holds a downloaded archive that was not extracted
InitialWorkdirs ==
  { <<>>,
    [d \in { <<"1","2">> } |->
       [zip |-> ZipFile(TRUE, [kind |-> "valid", files |-> {ss1, cv1}]),
        entries |-> {}, outs |-> {}]] }

\* The state at position p of job number j on URL u with recording id id, the
\* main download directory holding the files d and the working directories w
InitWith(p, j, u, id, d, w) ==
  /\ pc = p
  /\ jobs = j
  /\ url = u
  /\ custom_filename = NoText
  /\ recording_id = id
  /\ id_type = IF id = NoText THEN "None" ELSE "sco-id"
  /\ output_filename = NoText
  /\ created = (id # NoText)
  /\ dest = d
  /\ workdirs = w
  /\ zip_urls = <<>>
  /\ tried = 0
  /\ attempts = <<>>
  /\ media_streams = <<>>
  /\ netlog = <<>>
  /\ ffcalls = <<>>
  /\ outcome = "none"
  /\ ret = "none"
  /\ rmtree_failed = FALSE
  /\ destAtStart = d
  /\ resp = Response("none", <<>>)
  /\ listing = <<>>
  /\ account_resp = Response("none", <<>>)

\* main at position p, started with the command line a, ffmpeg installed or
\* not (f), lines holding l
MainState(p, a, f, l) ==
  /\ mpc = p
  /\ ffmpeg_installed = f
  /\ argv = a
  /\ args = <<>>
  /\ lines = l
  /\ row_index = 0
  /\ exit_code = -1
  /\ calls = <<>>
  /\ batch_complete = FALSE

\* process_single_url taken on its own, whoever calls it
NotInMain == MainState("job", <<>>, TRUE, <<>>)

\* before the first job
Init ==
  /\ \E d \in InitialDests, w \in InitialWorkdirs : InitWith("idle", 0, NoText, NoText, d, w)
  /\ NotInMain

----------------------------------------------------------------------------
(* process_single_url, one action per step *)

Request(kind, target) == [req |-> kind, url |-> target]

safe_recording_id == SafeFilename(recording_id)

\* return <value> from process_single_url
Return(how, value) ==
  /\ pc' = "idle"
  /\ outcome' = how
  /\ ret' = value

\* cleanup_temp_directory(temp_output_dir) on the directories dirs, then return
CleanupAndReturn(dirs, how, value) ==
  /\ \E removed \in BOOLEAN :
       /\ workdirs' = CleanupTempDirectory(dirs, safe_recording_id, removed)
       /\ rmtree_failed' = ~removed
  /\ Return(how, value)

\* main calls process_single_url(url, custom_filename, ...)
StartJob(u, c) ==
  /\ pc = "idle"
  /\ jobs < MaxJobs
  /\ jobs' = jobs + 1
  /\ url' = u
  /\ custom_filename' = c
  /\ pc' = "resolve"
  /\ recording_id' = NoText
  /\ id_type' = "None"
  /\ output_filename' = NoText
  /\ created' = FALSE
  /\ zip_urls' = <<>>
  /\ tried' = 0
  /\ attempts' = <<>>
  /\ media_streams' = <<>>
  /\ netlog' = <<>>
  /\ ffcalls' = <<>>
  /\ outcome' = "none"
  /\ ret' = "none"
  /\ rmtree_failed' = FALSE
  /\ destAtStart' = dest
  /\ UNCHANGED <<dest, workdirs, resp, listing>>

\* lines 36-39: recording_id, id_type = get_id_and_type(url, session), r being
\* what session.get produces
Resolve(r) ==
  /\ pc = "resolve"
  /\ LET found == GetIdAndType(url, r)
     IN /\ recording_id' = found[1]
        /\ id_type' = found[2]
        /\ netlog' = Append(netlog, Request("id_probe", url))
        /\ IF found[1] = NoText
           THEN Return("ResolutionFailure", "False")
           ELSE /\ pc' = "prepare"
                /\ UNCHANGED <<outcome, ret>>
  /\ UNCHANGED <<jobs, url, custom_filename, output_filename, created, dest, workdirs,
                 zip_urls, tried, attempts, media_streams, ffcalls, rmtree_failed,
                 destAtStart, listing>>

\* lines 41-65: the working directory, the destination name, the existence test
Prepare ==
  /\ pc = "prepare"
  /\ LET name == SafeFilename(OutputFilename(custom_filename, safe_recording_id))
         dirs == MakeDirs(workdirs, safe_recording_id)
     IN /\ created' = (safe_recording_id \notin DOMAIN workdirs)
        /\ output_filename' = name
        /\ IF DestExists(dest, name)
           THEN CleanupAndReturn(dirs, "SkippedExisting", "True")
           ELSE /\ workdirs' = dirs
                /\ pc' = "locate"
                /\ UNCHANGED <<outcome, ret, rmtree_failed>>
  /\ UNCHANGED <<jobs, url, custom_filename, recording_id, id_type, dest, zip_urls, tried,
                 attempts, media_streams, netlog, ffcalls, destAtStart, resp, listing>>

\* Variant of Locate: an archive found at zip_path is extracted before the
\* scan. C16 fails under it.
LocateExtracting ==
  /\ pc = "locate"
  /\ IF ZipExists(workdirs, safe_recording_id)
     THEN /\ pc' = "classify"
          /\ workdirs' = [workdirs EXCEPT ![safe_recording_id].entries =
                            @ \cup workdirs[safe_recording_id].zip.archive.files]
          /\ UNCHANGED <<zip_urls, netlog>>
     ELSE /\ \E r \in PageResponses :
               zip_urls' = ConstructZipUrls(url, recording_id, r)
          /\ netlog' = Append(netlog, Request("account_probe", url))
          /\ pc' = "fetch"
          /\ UNCHANGED workdirs
  /\ UNCHANGED <<jobs, url, custom_filename, recording_id, id_type, output_filename, created,
                 dest, tried, attempts, media_streams, ffcalls, outcome, ret,
                 rmtree_failed, destAtStart, resp, listing>>

\* lines 68-69 and 89-90: the archive is reused, or the candidates are built
Locate ==
  /\ pc = "locate"
  /\ IF ZipExists(workdirs, safe_recording_id)
     THEN /\ pc' = "classify"
          /\ UNCHANGED <<zip_urls, netlog>>
     ELSE /\ \E r \in PageResponses :
               zip_urls' = ConstructZipUrls(url, recording_id, r)
          /\ netlog' = Append(netlog, Request("account_probe", url))
          /\ pc' = "fetch"
  /\ UNCHANGED <<jobs, url, custom_filename, recording_id, id_type, output_filename, created,
                 dest, workdirs, tried, attempts, media_streams, ffcalls, outcome, ret,
                 rmtree_failed, destAtStart, resp, listing>>

\* lines 71-75: one iteration of the loop over zip_urls, r being what
\* session.get(zip_url) produces
TryCandidate(r) ==
  /\ pc = "fetch"
  /\ tried < Len(zip_urls)
  /\ tried' = tried + 1
  /\ netlog' = Append(netlog, Request("zip", zip_urls[tried + 1]))
  /\ workdirs' = [workdirs EXCEPT ![safe_recording_id].zip = ZipAfterDownload(@, r)]
  /\ pc' = IF DownloadZipFile(r) THEN "extract" ELSE "fetch"
  /\ UNCHANGED <<jobs, url, custom_filename, recording_id, id_type, output_filename, created,
                 dest, zip_urls, media_streams, ffcalls, outcome, ret, rmtree_failed,
                 destAtStart, resp, listing>>

\* lines 77-79: no candidate succeeded
FetchExhausted ==
  /\ pc = "fetch"
  /\ tried = Len(zip_urls)
  /\ CleanupAndReturn(workdirs, "LocationExhausted", "False")
  /\ UNCHANGED <<jobs, url, custom_filename, recording_id, id_type, output_filename, created,
                 dest, zip_urls, tried, attempts, media_streams, netlog, ffcalls,
                 destAtStart, resp, listing>>

\* lines 81-88: zipfile.ZipFile(zip_path).extractall(temp_output_dir)
Extract ==
  /\ pc = "extract"
  /\ LET archive == workdirs[safe_recording_id].zip.archive
         dirs == [workdirs EXCEPT ![safe_recording_id].entries = @ \cup archive.files]
     IN CASE archive.kind = "valid" ->
               /\ workdirs' = dirs
               /\ pc' = "classify"
               /\ UNCHANGED <<outcome, ret, rmtree_failed>>
          [] archive.kind = "bad" ->
               CleanupAndReturn(workdirs, "ArchiveInvalid", "False")
          [] OTHER ->
               \* an exception other than BadZipFile is not caught
               /\ workdirs' = dirs
               /\ Return("Raised", "raised")
               /\ UNCHANGED rmtree_failed
  /\ UNCHANGED <<jobs, url, custom_filename, recording_id, id_type, output_filename, created,
                 dest, zip_urls, tried, attempts, media_streams, netlog, ffcalls,
                 destAtStart, resp, listing>>

\* Variant of Classify: the job stopped only when no group at all was found.
\* C6 fails under it.
ClassifyAnyGroup(entries) ==
  /\ pc = "classify"
  /\ entries \in ListDir(workdirs, safe_recording_id)
  /\ LET streams == FindMediaStreams(safe_recording_id, entries)
     IN /\ media_streams' = streams
        /\ IF DOMAIN streams = {}
           THEN CleanupAndReturn(workdirs, "MissingRequiredStream", "False")
           ELSE /\ pc' = "video"
                /\ UNCHANGED <<workdirs, outcome, ret, rmtree_failed>>
  /\ UNCHANGED <<jobs, url, custom_filename, recording_id, id_type, output_filename, created,
                 dest, zip_urls, tried, attempts, netlog, ffcalls, destAtStart, resp>>

\* lines 93-97: media_streams = find_media_streams(temp_output_dir), entries
\* being what os.listdir produces
Classify(entries) ==
  /\ pc = "classify"
  /\ entries \in ListDir(workdirs, safe_recording_id)
  /\ LET streams == FindMediaStreams(safe_recording_id, entries)
     IN /\ media_streams' = streams
        /\ IF screenshare \notin DOMAIN streams
           THEN CleanupAndReturn(workdirs, "MissingRequiredStream", "False")
           ELSE /\ pc' = "video"
                /\ UNCHANGED <<workdirs, outcome, ret, rmtree_failed>>
  /\ UNCHANGED <<jobs, url, custom_filename, recording_id, id_type, output_filename, created,
                 dest, zip_urls, tried, attempts, netlog, ffcalls, destAtStart, resp>>

FfCall(op, files, ok) == [op |-> op, files |-> files, ok |-> ok]

\* lines 106-110: ffmpeg_handler.normalize_video_stream(video_files, ...)
NormalizeVideo ==
  /\ pc = "video"
  /\ \E ok \in BOOLEAN :
       LET video_files == media_streams[screenshare]
       IN /\ ffcalls' = Append(ffcalls, FfCall("normalize_video_stream", video_files, ok))
          /\ IF ok
             THEN /\ workdirs' = WithOutput(workdirs, safe_recording_id, "video")
                  /\ pc' = "audio"
                  /\ UNCHANGED <<outcome, ret, rmtree_failed>>
             ELSE CleanupAndReturn(workdirs, "TranscodeFailure", "False")
  /\ UNCHANGED <<jobs, url, custom_filename, recording_id, id_type, output_filename, created,
                 dest, zip_urls, tried, attempts, media_streams, netlog, destAtStart,
                 resp, listing>>

\* Variant of NormalizeAudio: the result of normalize_audio_stream not tested.
\* C18 fails under it.
NormalizeAudioUntested ==
  /\ pc = "audio"
  /\ \E ok \in BOOLEAN :
       LET audio_files == IF cameravoip \in DOMAIN media_streams
                          THEN media_streams[cameravoip] ELSE media_streams[screenshare]
       IN /\ ffcalls' = Append(ffcalls, FfCall("normalize_audio_stream", audio_files, ok))
          /\ workdirs' = WithOutput(workdirs, safe_recording_id, "audio")
          /\ pc' = "merge"
          /\ UNCHANGED <<outcome, ret, rmtree_failed>>
  /\ UNCHANGED <<jobs, url, custom_filename, recording_id, id_type, output_filename, created,
                 dest, zip_urls, tried, attempts, media_streams, netlog, destAtStart,
                 resp, listing>>

\* lines 113-117: ffmpeg_handler.normalize_audio_stream(audio_files, ...)
NormalizeAudio ==
  /\ pc = "audio"
  /\ \E ok \in BOOLEAN :
       LET audio_files == IF cameravoip \in DOMAIN media_streams
                          THEN media_streams[cameravoip] ELSE media_streams[screenshare]
       IN /\ ffcalls' = Append(ffcalls, FfCall("normalize_audio_stream", audio_files, ok))
          /\ IF ok
             THEN /\ workdirs' = WithOutput(workdirs, safe_recording_id, "audio")
                  /\ pc' = "merge"
                  /\ UNCHANGED <<outcome, ret, rmtree_failed>>
             ELSE CleanupAndReturn(workdirs, "TranscodeFailure", "False")
  /\ UNCHANGED <<jobs, url, custom_filename, recording_id, id_type, output_filename, created,
                 dest, zip_urls, tried, attempts, media_streams, netlog, destAtStart,
                 resp, listing>>

\* Variant of Merge: the result of merge_normalized_streams not tested.
\* C2 fails under it.
MergeUntested ==
  /\ pc = "merge"
  /\ \E ok \in BOOLEAN :
       /\ ffcalls' = Append(ffcalls, FfCall("merge_normalized_streams", <<>>, ok))
       /\ workdirs' = WithOutput(workdirs, safe_recording_id, "final")
       /\ pc' = "place"
       /\ UNCHANGED <<outcome, ret, rmtree_failed>>
  /\ UNCHANGED <<jobs, url, custom_filename, recording_id, id_type, output_filename, created,
                 dest, zip_urls, tried, attempts, media_streams, netlog, destAtStart,
                 resp, listing>>

\* lines 120 and 127-130: ffmpeg_handler.merge_normalized_streams(...)
Merge ==
  /\ pc = "merge"
  /\ \E ok \in BOOLEAN :
       /\ ffcalls' = Append(ffcalls, FfCall("merge_normalized_streams", <<>>, ok))
       /\ IF ok
          THEN /\ workdirs' = WithOutput(workdirs, safe_recording_id, "final")
               /\ pc' = "place"
               /\ UNCHANGED <<outcome, ret, rmtree_failed>>
          ELSE CleanupAndReturn(workdirs, "TranscodeFailure", "False")
  /\ UNCHANGED <<jobs, url, custom_filename, recording_id, id_type, output_filename, created,
                 dest, zip_urls, tried, attempts, media_streams, netlog, destAtStart,
                 resp, listing>>

\* lines 122-126: shutil.move to the destination, cleanup, return True;
\* an exception of shutil.move is not caught
Place ==
  /\ pc = "place"
  /\ \E moved \in BOOLEAN :
       IF moved
       THEN /\ dest' = Moved(dest, output_filename, jobs)
            /\ CleanupAndReturn(
                 [workdirs EXCEPT ![safe_recording_id].outs = @ \ {"final"}],
                 "Done", "True")
       ELSE /\ Return("Raised", "raised")
            /\ UNCHANGED <<dest, workdirs, rmtree_failed>>
  /\ UNCHANGED <<jobs, url, custom_filename, recording_id, id_type, output_filename, created,
                 zip_urls, tried, attempts, media_streams, netlog, ffcalls, destAtStart,
                 resp, listing>>

----------------------------------------------------------------------------
(* The run: jobs processed one after the other *)

Next ==
  \/ \E u \in Urls, c \in CustomFilenames : StartJob(u, c) /\ UNCHANGED <<mainvars, account_resp>>
  \/ \E r \in PageResponses : Resolve(r) /\ UNCHANGED resp /\ UNCHANGED <<mainvars, account_resp>>
  \/ Prepare /\ UNCHANGED <<mainvars, account_resp>>
  \/ Locate /\ UNCHANGED <<mainvars, account_resp>>
  \/ \E r \in ZipResponses : TryCandidate(r) /\ UNCHANGED attempts /\ UNCHANGED <<mainvars, account_resp>>
  \/ FetchExhausted /\ UNCHANGED <<mainvars, account_resp>>
  \/ Extract /\ UNCHANGED <<mainvars, account_resp>>
  \/ \E entries \in ListDir(workdirs, safe_recording_id) : Classify(entries) /\ UNCHANGED listing /\ UNCHANGED <<mainvars, account_resp>>
  \/ NormalizeVideo /\ UNCHANGED <<mainvars, account_resp>>
  \/ NormalizeAudio /\ UNCHANGED <<mainvars, account_resp>>
  \/ Merge /\ UNCHANGED <<mainvars, account_resp>>
  \/ Place /\ UNCHANGED <<mainvars, account_resp>>

Spec == Init /\ [][Next]_vars

----------------------------------------------------------------------------
(* get_id_and_type on its own: process_single_url from its first line to the *)
(* return of get_id_and_type, on a wider set of URLs and pages, resp holding *)
(* the page that was fetched.                                                *)

ResolverUrls == {
  <<"h","t","t","p",":","/","/","h","/","p","1","a","b","c","/">>,
  <<"h","t","t","p",":","/","/","h","/","p","1","a","b","c","/","?","x","=","1">>,
  <<"h","t","t","p",":","/","/","h","/","r","e","c","/","p","-","2","_","b">>,
  <<"h","t","t","p",":","/","/","h","/">>,
  <<"h","t","t","p",":","/","/","h">>,
  <<"h","t","t","p",":","/","/","h","/","a","/","p","1",".","h","t","m","l">>,
  <<"h","t","t","p",":","/","/","h","/","a","%","2","0","b">>,
  <<"h","t","t","p",":","/","/","h","/","p","1",".">>,
  <<"h","t","t","p",":","/","/","h","/","p","1","/","/">>,
  <<"h","t","t","p",":","/","/","h","/","p","1","/","#","f">>,
  <<"h","t","t","p",":","/","/","h","/","p","1",";","v","=","2">>,
  <<"h","t","t","p","s",":","/","/","h","/","7","?","s","c","o","-","i","d","=","3">> }

ResolverPages == {
  <<"<","h","t","m","l",">">>,
  <<"s","c","o","-","i","d","=","1","2">>,
  <<"\"","s","c","o","-","i","d","\""," ",":"," ","\"","7","\"">>,
  <<"s","c","o","i","d",":","5"," ","s","c","o","-","i","d","=","9">>,
  <<"r","e","c","o","r","d","i","n","g","-","i","d","=","3"," ","\"","S","C","O","-","I","D","\"",":","\"","4","4","\"">>,
  <<"s","c","o","-","i","d","="," ","1">>,
  <<"S","C","O","I","D",":","8","x">>,
  <<"\"","s","c","o","-","i","d","\"",":","\"","1","2">>,
  <<"a"," ","r","e","c","o","r","d","i","n","g","-","i","d","=","3","1"," ","s","c","o","i","d",":","2">> }

ResolverResponses ==
  { Response("ok", t) : t \in ResolverPages }
  \cup { Response("http_error", <<"<","h","t","m","l",">">>), Response("http_error", <<"s","c","o","-","i","d","=","1","2">>),
         Response("net_error", <<>>) }

InitResolve ==
  /\ \E u \in ResolverUrls : InitWith("resolve", 1, u, NoText, <<>>, <<>>)
  /\ NotInMain

NextResolve ==
  \E r \in ResolverResponses : Resolve(r) /\ resp' = r /\ UNCHANGED <<mainvars, account_resp>>

SpecResolve == InitResolve /\ [][NextResolve]_vars

----------------------------------------------------------------------------
(* find_media_streams on its own: process_single_url at the call of         *)
(* find_media_streams, on working directories holding up to MaxFiles of the  *)
(* files below, listing holding the order os.listdir returned them in.       *)

MaxFiles == 4

cv3    == <<"c","a","m","e","r","a","v","o","i","p","_","3",".","f","l","v">>
cv03   == <<"c","a","m","e","r","a","V","o","i","p","_","0","_","3",".","f","l","v">>
notes  == <<"n","o","t","e","s",".","f","l","v">>
ssx    == <<"S","c","r","e","e","n","S","h","a","r","e","_","x",".","F","L","V">>
ss0    == <<"s","c","r","e","e","n","s","h","a","r","e","_","0",".","f","l","v">>
readme == <<"r","e","a","d","m","e",".","t","x","t">>

FileUniverse == {ss1, ss2, ss10, cv1, cv3, cv03, notes, ssx, ss0, readme}

\* the fragment names of the classification example
ExampleFiles == {ss1, ss10, ss2, cv3, cv1, notes}

ScanFolder == <<"1","2">>

InitStreams ==
  /\ NotInMain
  /\ \E files \in {S \in SUBSET FileUniverse : Cardinality(S) <= MaxFiles} \cup {ExampleFiles} :
    InitWith("classify", 1, <<"h","t","t","p",":","/","/","h","/","p","1","/">>, ScanFolder, <<>>,
             [d \in {ScanFolder} |-> [zip |-> NoZip, entries |-> files, outs |-> {}]])

NextStreams ==
  \E entries \in ListDir(workdirs, safe_recording_id) : Classify(entries) /\ listing' = entries /\ UNCHANGED <<mainvars, account_resp>>

SpecStreams == InitStreams /\ [][NextStreams]_vars

----------------------------------------------------------------------------
(* The download loop on its own: process_single_url from the test of         *)
(* os.path.exists(zip_path) to the end of the loop over zip_urls, attempts   *)
(* holding each download_zip_file call: the URL, the response, and the file  *)
(* at zip_path before and after the call.                                    *)

Attempt(target, r, before, after) ==
  [url |-> target, response |-> r, zip_before |-> before, zip_after |-> after]

FetchFolder == <<"p","1">>

InitFetch ==
  /\ NotInMain
  /\ InitWith("locate", 1, <<"h","t","t","p",":","/","/","h","/","p","1","/">>, FetchFolder, <<>>, [d \in {FetchFolder} |-> EmptyDir])

TryCandidateLogged ==
  \E r \in ZipResponses :
    /\ TryCandidate(r)
    /\ attempts' = Append(attempts, Attempt(zip_urls[tried + 1], r,
                                            workdirs[safe_recording_id].zip,
                                            workdirs'[safe_recording_id].zip))

NextFetch ==
  \/ Locate /\ UNCHANGED <<mainvars, account_resp>>
  \/ TryCandidateLogged /\ UNCHANGED <<mainvars, account_resp>>
  \/ FetchExhausted /\ UNCHANGED <<mainvars, account_resp>>

SpecFetch == InitFetch /\ [][NextFetch]_vars

----------------------------------------------------------------------------
(* Properties *)

JobEnded == pc = "idle" /\ jobs > 0

FailedOutcomes == {"ResolutionFailure", "LocationExhausted", "ArchiveInvalid",
                   "MissingRequiredStream", "TranscodeFailure"}

\* the three transcoding calls, in order, all successful
AllTranscodingSucceeded ==
  /\ Len(ffcalls) = 3
  /\ ffcalls[1].op = "normalize_video_stream" /\ ffcalls[1].ok
  /\ ffcalls[2].op = "normalize_audio_stream" /\ ffcalls[2].ok
  /\ ffcalls[3].op = "merge_normalized_streams" /\ ffcalls[3].ok

\* C1 (as claimed): a job whose destination file already exists performs no
\* network request and no transcoding call.
C1_NoRequestWhenDestExists ==
  (JobEnded /\ outcome = "SkippedExisting") => (netlog = <<>> /\ ffcalls = <<>>)

\* C1 (amended): a job whose destination file already exists performs exactly
\* one network request, the identifier probe of get_id_and_type, which
\* precedes the existence test; it performs no account probe, no archive
\* download and no transcoding call.
C1_OnlyIdProbeWhenDestExists ==
  (output_filename # NoText /\ output_filename \in DOMAIN destAtStart)
    => /\ netlog = <<Request("id_probe", url)>>
       /\ ffcalls = <<>>
       /\ JobEnded /\ outcome = "SkippedExisting" /\ ret = "True"

C1_Witness ==
  /\ JobEnded
  /\ outcome = "SkippedExisting"
  /\ output_filename \in DOMAIN destAtStart
  /\ Len(netlog) = 1

\* C2: the destination directory changes only by the move of the Placing
\* step, after normalize-video, normalize-audio and merge all succeeded in
\* that job; a job that ends Failed or SkippedExisting leaves it as it was.
C2_DestWrittenOnlyByPlacing ==
  /\ dest # destAtStart =>
       /\ JobEnded /\ outcome = "Done"
       /\ AllTranscodingSucceeded
       /\ dest = [n \in DOMAIN destAtStart \cup {output_filename} |->
                    IF n = output_filename THEN jobs ELSE destAtStart[n]]
  /\ outcome \in FailedOutcomes \cup {"SkippedExisting"} => dest = destAtStart

C2_Witness ==
  /\ JobEnded /\ outcome = "Done"
  /\ dest # destAtStart
  /\ output_filename \in DOMAIN dest

\* C3: when a job for which the working directory was created ends, whatever
\* its outcome, the working directory is gone (unless the removal itself failed).
C3_WorkdirRemovedWhenJobEnds ==
  (JobEnded /\ created /\ ~rmtree_failed) => safe_recording_id \notin DOMAIN workdirs

\* C4: a file that is in the destination directory when a job starts is still
\* there, unchanged, at every later point of that job.
C4_ExistingDestKept ==
  \A n \in DOMAIN destAtStart : n \in DOMAIN dest /\ dest[n] = destAtStart[n]

\* the second job resolves to the name of the file the first job placed
C4_Witness ==
  /\ JobEnded /\ jobs = 2
  /\ output_filename \in DOMAIN destAtStart
  /\ destAtStart[output_filename] = 1
  /\ dest[output_filename] = 1

\* C6: without a 'screenshare' group the job fails with MissingRequiredStream
\* before any transcoding call; no job gets past classification without it.
C6_NoTranscodingWithoutScreenshare ==
  /\ (ffcalls # <<>> \/ pc \in {"video", "audio", "merge", "place"}
        \/ outcome \in {"TranscodeFailure", "Done"})
       => screenshare \in DOMAIN media_streams
  /\ outcome = "MissingRequiredStream"
       => /\ screenshare \notin DOMAIN media_streams
          /\ ffcalls = <<>>
          /\ ret = "False"

\* fragments were extracted, none of them a screenshare fragment
C6_Witness ==
  /\ JobEnded /\ outcome = "MissingRequiredStream"
  /\ cameravoip \in DOMAIN media_streams
  /\ ffcalls = <<>>


\* a response that is not an HTTP 200, or is HTML
Rejected(r) == r.raises # "connect" /\ (r.status # 200 \/ r.html)

\* an HTTP 200, non-HTML response whose body was received in full
Acceptable(r) == r.raises = "none" /\ r.status = 200 /\ ~r.html

\* C5: the candidate URLs are tried in their listed order; a response that is
\* not an HTTP 200 or is HTML leaves the file at zip_path as it was; the loop
\* stops at the first candidate that delivers an acceptable archive, and that
\* archive is the one on disk.
C5_CandidatesTriedInOrder ==
  /\ Len(attempts) = tried
  /\ \A k \in 1..Len(attempts) :
       /\ attempts[k].url = zip_urls[k]
       /\ Rejected(attempts[k].response) => attempts[k].zip_after = attempts[k].zip_before
       /\ Acceptable(attempts[k].response) <=> (k = Len(attempts) /\ pc = "extract")
  /\ pc = "extract" =>
       workdirs[safe_recording_id].zip =
         ZipFile(TRUE, attempts[Len(attempts)].response.archive)
  /\ (JobEnded /\ outcome = "LocationExhausted") => tried = Len(zip_urls)

\* an HTML page, then a 404, then an archive
C5_Witness ==
  /\ pc = "extract"
  /\ Len(attempts) = 3
  /\ attempts[1].response.status = 200 /\ attempts[1].response.html
  /\ attempts[2].response.status = 404
  /\ attempts[3].response.archive.kind = "valid"
  /\ attempts[2].zip_after = NoZip

\* the integer between the last underscore and the extension, 0 when that
\* text is not a decimal number
NumericSuffix(path) ==
  LET name == Basename(path)
      dot  == LastOf(name, ".")
      root == IF dot > 1 THEN SubSeq(name, 1, dot - 1) ELSE name
      suffix == SubSeq(root, LastOf(root, "_") + 1, Len(root))
  IN IF suffix # <<>> /\ \A k \in 1..Len(suffix) : IsDigit(suffix[k])
     THEN ToInt(suffix) ELSE 0

ListingIndex(path) == CHOOSE i \in 1..Len(listing) : listing[i] = Basename(path)

\* C7: within each group the files are in ascending order of their integer
\* suffix, compared as numbers, a file without one counting as 0; files with
\* equal suffixes keep the order the directory listing produced them in.
C7_GroupsSortedBySuffix ==
  pc # "classify" =>
    \A role \in DOMAIN media_streams :
      LET files == media_streams[role]
      IN \A i, j \in 1..Len(files) :
           i < j => \/ NumericSuffix(files[i]) < NumericSuffix(files[j])
                    \/ /\ NumericSuffix(files[i]) = NumericSuffix(files[j])
                       /\ ListingIndex(files[i]) < ListingIndex(files[j])

\* listed as 10, x, 2, 0: sorted as x, 0, 2, 10
C7_Witness ==
  /\ pc # "classify"
  /\ listing = <<ss10, ssx, ss2, ss0>>
  /\ media_streams[screenshare] =
       <<Join(ScanFolder, ssx), Join(ScanFolder, ss0), Join(ScanFolder, ss2), Join(ScanFolder, ss10)>>

HasFlvExtension(name) ==
  /\ Len(name) >= 4
  /\ LowerStr(SubSeq(name, Len(name) - 3, Len(name))) = <<".","f","l","v">>

\* the leading run of letters and digits of a name
LeadingToken(name) ==
  LET n == CHOOSE k \in 0..Len(name) :
             /\ \A i \in 1..k : IsAlnum(name[i])
             /\ k < Len(name) => ~IsAlnum(name[k + 1])
  IN SubSeq(name, 1, n)

TokenEndsAtUnderscore(name) ==
  LET n == Len(LeadingToken(name))
  IN n >= 1 /\ n < Len(name) /\ name[n + 1] = "_"

\* the groups a listed file was put in, and how many times in all
GroupsHolding(name) ==
  {role \in DOMAIN media_streams :
     \E i \in 1..Len(media_streams[role]) : Basename(media_streams[role][i]) = name}

TimesGrouped(name) ==
  Cardinality({<<role, i>> \in (DOMAIN media_streams) \X (1..(MaxFiles + 2)) :
                 i <= Len(media_streams[role]) /\ Basename(media_streams[role][i]) = name})

Listed == {listing[i] : i \in 1..Len(listing)}

\* C8 (as claimed): every listed .flv file is in exactly one group, the group
\* of its lower-cased leading alphanumeric token, whatever follows the token.
C8_EveryFlvGrouped ==
  pc # "classify" =>
    \A name \in Listed :
      HasFlvExtension(name) =>
        /\ GroupsHolding(name) = {LowerStr(LeadingToken(name))}
        /\ TimesGrouped(name) = 1

\* C8 (amended): a listed .flv file whose leading alphanumeric token is
\* directly followed by an underscore is in exactly one group, the group of
\* the lower-cased token; every other listed file, an .flv file such as
\* notes.flv whose token is not followed by an underscore included, is in no
\* group; the groups hold nothing else and none is empty.
C8_FlvWithUnderscoreGrouped ==
  pc # "classify" =>
    /\ \A name \in Listed :
         IF HasFlvExtension(name) /\ TokenEndsAtUnderscore(name)
         THEN /\ GroupsHolding(name) = {LowerStr(LeadingToken(name))}
              /\ TimesGrouped(name) = 1
         ELSE GroupsHolding(name) = {}
    /\ \A role \in DOMAIN media_streams :
         /\ media_streams[role] # <<>>
         /\ \A i \in 1..Len(media_streams[role]) :
              /\ Basename(media_streams[role][i]) \in Listed
              /\ media_streams[role][i] = Join(safe_recording_id, Basename(media_streams[role][i]))

\* the fragments of the classification example: notes.flv is in no group
C8_Witness ==
  /\ pc # "classify"
  /\ Listed = ExampleFiles
  /\ DOMAIN media_streams = {screenshare, cameravoip}
  /\ GroupsHolding(notes) = {}
  /\ Len(media_streams[screenshare]) = 3
  /\ Len(media_streams[cameravoip]) = 2

\* the patterns of the list that match the fetched body
MatchingPatterns ==
  IF resp.kind = "ok"
  THEN {k \in 1..Len(patterns) : ReSearch(patterns[k], resp.text) # NoText}
  ELSE {}

Resolved == pc # "resolve"

\* C9: when the body fetched from the URL holds one of the identifier
\* patterns, the result has kind 'sco-id' and is the capture of the first
\* pattern of the list that matches, whatever the URL path is.
C9_ScoIdFromFirstMatchingPattern ==
  (Resolved /\ MatchingPatterns # {}) =>
    LET first == CHOOSE k \in MatchingPatterns : \A j \in MatchingPatterns : k <= j
    IN /\ id_type = "sco-id"
       /\ recording_id = ReSearch(patterns[first], resp.text)
       /\ pc = "prepare"

\* the body matches the second and the fourth pattern, the path ends in a token
C9_Witness ==
  /\ Resolved
  /\ MatchingPatterns = {2, 4}
  /\ PathIdFallback(url)[2] = "path-id"
  /\ recording_id = <<"9">>
  /\ id_type = "sco-id"

\* the last '/'-separated piece of the URL path, trailing slashes, query
\* string and fragment left out
TrailingSegment(u) ==
  LET path == StripSlashes(UrlPath(u))
  IN SubSeq(path, LastOf(path, "/") + 1, Len(path))

AllPathIdChars(s) == \A k \in 1..Len(s) : IsPathIdChar(s[k])

\* C10 (as claimed): when no pattern matched or the fetch failed, the result
\* is the whole trailing path segment with kind 'path-id' if that segment is
\* non-empty and made of letters, digits, '_' and '-' only, and (None, None)
\* otherwise.
C10_WholeSegmentOrFailure ==
  (Resolved /\ MatchingPatterns = {}) =>
    LET segment == TrailingSegment(url)
    IN IF segment # <<>> /\ AllPathIdChars(segment)
       THEN recording_id = segment /\ id_type = "path-id"
       ELSE recording_id = NoText /\ id_type = "None"

\* C10 (amended): when no pattern matched or the fetch failed, the result is
\* the longest suffix of the trailing path segment made of letters, digits,
\* '_' and '-' only, with kind 'path-id': the whole segment when all its
\* characters are of that kind; it is (None, None) only when the segment is
\* empty or its last character is not of that kind.
C10_LongestSafeSuffixOfSegment ==
  (Resolved /\ MatchingPatterns = {}) =>
    LET segment == TrailingSegment(url)
        n == Len(recording_id)
    IN IF segment = <<>> \/ ~IsPathIdChar(segment[Len(segment)])
       THEN recording_id = NoText /\ id_type = "None" /\ outcome = "ResolutionFailure"
       ELSE /\ id_type = "path-id"
            /\ n >= 1 /\ n <= Len(segment)
            /\ recording_id = SubSeq(segment, Len(segment) - n + 1, Len(segment))
            /\ AllPathIdChars(recording_id)
            /\ n < Len(segment) => ~IsPathIdChar(segment[Len(segment) - n])

\* .../a/p1.html resolves to 'html'
C10_Witness ==
  /\ Resolved
  /\ MatchingPatterns = {}
  /\ TrailingSegment(url) = <<"p","1",".","h","t","m","l">>
  /\ recording_id = <<"h","t","m","l">>
  /\ id_type = "path-id"

----------------------------------------------------------------------------
(* The two probes and construct_zip_urls on their own: process_single_url    *)
(* from its start to the end of the loop over zip_urls, so that the          *)
(* identifier and its kind are the ones get_id_and_type produced for the     *)
(* URL; resp and account_resp hold what session.get produced inside          *)
(* get_id_and_type and inside get_account_id.                                *)

LocatorUrls == {
  <<"h","t","t","p",":","/","/","h","/","p","1","/">>,
  <<"h","t","t","p",":","/","/","h","/","x","/","1","2">>,
  <<"h","t","t","p","s",":","/","/","g","/","o","u","t","p","u","t">>,
  <<"h","t","t","p",":","/","/","h","/","o","u","t","p","u","t","/">>,
  <<"h","t","t","p","s",":","/","/","g","/","7","?","s","c","o","-","i","d","=","3">>,
  <<"h","t","t","p",":","/","/","h","/","p","-","2","_","b">>,
  <<"h","t","t","p",":","/","/","h","/">> }

InitLocate ==
  /\ \E u \in LocatorUrls : InitWith("resolve", 1, u, NoText, <<>>, <<>>)
  /\ NotInMain

\* Locate, account_resp holding the response that gave the candidate list
LocateLogged ==
  \E r \in PageResponses :
    /\ Locate
    /\ zip_urls' = ConstructZipUrls(url, recording_id, r)
    /\ account_resp' = r

NextLocate ==
  \/ \E r \in PageResponses : Resolve(r) /\ resp' = r /\ UNCHANGED <<mainvars, account_resp>>
  \/ Prepare /\ UNCHANGED <<mainvars, account_resp>>
  \/ LocateLogged /\ UNCHANGED mainvars
  \/ \E r \in ZipResponses : TryCandidate(r) /\ UNCHANGED attempts /\ UNCHANGED <<mainvars, account_resp>>
  \/ FetchExhausted /\ UNCHANGED <<mainvars, account_resp>>

SpecLocate == InitLocate /\ [][NextLocate]_vars

----------------------------------------------------------------------------
(* Properties of the candidate list *)

\* <base>/<dir>/output/<name>.zip?download=zip
CandidateUrl(base, dir, name) ==
  base \o <<"/">> \o dir \o <<"/","o","u","t","p","u","t","/">> \o name \o <<".","z","i","p","?","d","o","w","n","l","o","a","d","=","z","i","p">>

\* the shapes in generation order: two on the bare identifier, two on the
\* prefixed identifier, and two in the content hierarchy when there is an
\* account identifier
GenerationOrder(base, id, account_id) ==
  << CandidateUrl(base, id, id),
     CandidateUrl(base, id, <<"o","u","t","p","u","t">>),
     CandidateUrl(base, <<"p">> \o id, id),
     CandidateUrl(base, <<"p">> \o id, <<"o","u","t","p","u","t">>) >>
  \o (IF account_id = NoText THEN <<>>
      ELSE << CandidateUrl(base, <<"c","o","n","t","e","n","t","/">> \o account_id \o <<"/">> \o id \o <<"-","1">>, id \o <<"-","1">>),
              CandidateUrl(base, <<"c","o","n","t","e","n","t","/">> \o account_id \o <<"/">> \o id \o <<"-","1">>, <<"o","u","t","p","u","t">>) >>)

FirstIndex(list, x) == CHOOSE k \in 1..Len(list) : list[k] = x /\ \A j \in 1..(k - 1) : list[j] # x

\* list is generated with its repetitions removed, first occurrences in place
FirstOccurrencesOf(list, generated) ==
  /\ \A a, b \in 1..Len(list) : a # b => list[a] # list[b]
  /\ {list[k] : k \in 1..Len(list)} = {generated[k] : k \in 1..Len(generated)}
  /\ \A a, b \in 1..Len(list) :
       a < b => FirstIndex(generated, list[a]) < FirstIndex(generated, list[b])

CandidatesBuilt == pc = "fetch" /\ tried = 0

\* C11: the candidate list is a function of the URL's scheme and host, the
\* identifier and the account identifier (or its absence), whatever the kind
\* of the identifier: the shapes in generation order, the content-hierarchy
\* shapes only with an account identifier, repetitions removed with first
\* occurrences kept in place.
C11_CandidatesInGenerationOrder ==
  CandidatesBuilt =>
    \E account_id \in {NoText, <<"7">>} :
      FirstOccurrencesOf(zip_urls, GenerationOrder(UrlBase(url), recording_id, account_id))

\* the path token 'output': the two shapes of each directory coincide
C11_Witness ==
  /\ CandidatesBuilt
  /\ recording_id = <<"o","u","t","p","u","t">>
  /\ id_type = "path-id"
  /\ zip_urls = << <<"h","t","t","p","s",":","/","/","g","/","o","u","t","p","u","t","/","o","u","t","p","u","t","/","o","u","t","p","u","t",".","z","i","p","?","d","o","w","n","l","o","a","d","=","z","i","p">>,
                   <<"h","t","t","p","s",":","/","/","g","/","p","o","u","t","p","u","t","/","o","u","t","p","u","t","/","o","u","t","p","u","t",".","z","i","p","?","d","o","w","n","l","o","a","d","=","z","i","p">>,
                   <<"h","t","t","p","s",":","/","/","g","/","c","o","n","t","e","n","t","/","7","/","o","u","t","p","u","t","-","1","/","o","u","t","p","u","t","/","o","u","t","p","u","t","-","1",".","z","i","p","?","d","o","w","n","l","o","a","d","=","z","i","p">>,
                   <<"h","t","t","p","s",":","/","/","g","/","c","o","n","t","e","n","t","/","7","/","o","u","t","p","u","t","-","1","/","o","u","t","p","u","t","/","o","u","t","p","u","t",".","z","i","p","?","d","o","w","n","l","o","a","d","=","z","i","p">> >>

----------------------------------------------------------------------------
(* main: the command line, the ffmpeg check, single-URL and batch mode *)

\* str.strip()
StripSpace(s) ==
  LET keep == {k \in 1..Len(s) : ~IsSpace(s[k])}
  IN IF keep = {} THEN <<>>
     ELSE SubSeq(s, CHOOSE k \in keep : \A j \in keep : k <= j,
                    CHOOSE k \in keep : \A j \in keep : k >= j)

\* the option strings the parser of main defines, each taking one value
OptionDests ==
  [o \in {<<"-","o">>, <<"-","-","o","u","t","p","u","t">>, <<"-","-","c","o","o","k","i","e","s">>, <<"-","-","q","u","a","l","i","t","y">>} |->
     IF o = <<"-","-","c","o","o","k","i","e","s">> THEN "cookies" ELSE IF o = <<"-","-","q","u","a","l","i","t","y">> THEN "quality" ELSE "output"]

IsOptionToken(tok) == Len(tok) >= 2 /\ tok[1] = "-"

\* what parse_args has collected
NoneParsed ==
  [positionals |-> <<>>, extras |-> <<>>, missing |-> FALSE,
   values |-> [output |-> NoText, cookies |-> NoText, quality |-> <<"m","e","d","i","u","m">>]]

\* parse_args going through the tokens from index k on: a defined option takes
\* the next token as its value, any other option string is unrecognized, the
\* rest are positionals
RECURSIVE ScanArgv(_, _, _)
ScanArgv(tokens, k, ns) ==
  IF k > Len(tokens) THEN ns
  ELSE LET tok == tokens[k]
       IN IF tok \in DOMAIN OptionDests
          THEN IF k + 1 > Len(tokens) \/ IsOptionToken(tokens[k + 1])
               THEN ScanArgv(tokens, k + 1, [ns EXCEPT !.missing = TRUE])
               ELSE ScanArgv(tokens, k + 2, [ns EXCEPT !.values[OptionDests[tok]] = tokens[k + 1]])
          ELSE IF IsOptionToken(tok)
          THEN ScanArgv(tokens, k + 1, [ns EXCEPT !.extras = Append(@, tok)])
          ELSE ScanArgv(tokens, k + 1, [ns EXCEPT !.positionals = Append(@, tok)])

\* parser.parse_args(): the Namespace, or <<>> when the parser calls
\* parser.error (exit status 2): an option without its value, no url (the
\* required group holds url alone), or arguments left over once url, the only
\* positional, has taken the first one
ParseArgs(tokens) ==
  LET ns == ScanArgv(tokens, 1, NoneParsed)
  IN IF ns.missing \/ ns.extras # <<>> \/ Len(ns.positionals) # 1
     THEN <<>>
     ELSE [url |-> ns.positionals[1], output |-> ns.values.output,
           cookies |-> ns.values.cookies, quality |-> ns.values.quality]

\* sys.exit(code), or the interpreter ending
Exit(code) ==
  /\ mpc' = "exited"
  /\ exit_code' = code

\* args = parser.parse_args()
Parse ==
  /\ mpc = "parse"
  /\ LET ns == ParseArgs(argv)
     IN IF DOMAIN ns = {}
        THEN Exit(2) /\ UNCHANGED args
        ELSE /\ args' = ns
             /\ mpc' = "ffmpeg"
             /\ UNCHANGED exit_code
  /\ UNCHANGED <<ffmpeg_installed, argv, lines, row_index, calls, batch_complete>>
  /\ UNCHANGED jobvars

\* Variant of CheckFfmpeg: the run goes on without ffmpeg. C15 fails under it.
CheckFfmpegIgnored ==
  /\ mpc = "ffmpeg"
  /\ mpc' = "dispatch"
  /\ UNCHANGED <<ffmpeg_installed, argv, args, lines, row_index, exit_code, calls, batch_complete>>
  /\ UNCHANGED jobvars

\* ffmpeg_handler = FFmpegHandler(), FileNotFoundError leading to sys.exit(1)
CheckFfmpeg ==
  /\ mpc = "ffmpeg"
  /\ IF ffmpeg_installed
     THEN mpc' = "dispatch" /\ UNCHANGED exit_code
     ELSE Exit(1)
  /\ UNCHANGED <<ffmpeg_installed, argv, args, lines, row_index, calls, batch_complete>>
  /\ UNCHANGED jobvars

\* main calls process_single_url(u, c, ...) and is at position p meanwhile
Call(u, c, p) ==
  /\ StartJob(u, c)
  /\ calls' = Append(calls, <<u, c>>)
  /\ mpc' = p
  /\ UNCHANGED account_resp

\* if args.url: ... elif args.file: ...
Dispatch ==
  /\ mpc = "dispatch"
  /\ IF args.url # NoText
     THEN Call(args.url, args.output, "single") /\ UNCHANGED exit_code
     ELSE /\ IF "file" \notin DOMAIN args
             THEN Exit(1)    \* AttributeError, not caught
             ELSE IF args.file # NoText
             THEN mpc' = "batch_open" /\ UNCHANGED exit_code
             ELSE Exit(0)
          /\ UNCHANGED calls
          /\ UNCHANGED jobvars
  /\ UNCHANGED <<ffmpeg_installed, argv, args, lines, row_index, batch_complete>>

\* single-URL mode: process_single_url has returned, its value is dropped and
\* main ends; an exception that escaped it ends the interpreter with status 1
SingleReturned ==
  /\ mpc = "single"
  /\ pc = "idle"
  /\ Exit(IF ret = "raised" THEN 1 ELSE 0)
  /\ UNCHANGED <<ffmpeg_installed, argv, args, lines, row_index, calls, batch_complete>>
  /\ UNCHANGED jobvars

\* the batch files: up to MaxJobs rows, each an empty line, a blank first
\* column, a link, or a link and a file name (blank or not)
BatchRows == {
  <<>>,
  << <<" ">> >>,
  << <<" ","h","t","t","p",":","/","/","h","/","p","1","/">> >>,
  << <<"h","t","t","p",":","/","/","h","/">>, <<"l","e","c"," ">> >>,
  << <<"h","t","t","p",":","/","/","h","/","p","1","/">>, <<" ">> >> }

RECURSIVE RowLists(_)
RowLists(n) ==
  IF n = 0 THEN {<<>>}
  ELSE LET shorter == RowLists(n - 1)
       IN shorter \cup {Append(l, row) : l \in {x \in shorter : Len(x) = n - 1}, row \in BatchRows}

BatchFiles == RowLists(MaxJobs)

\* with open(args.file) as f: lines = list(csv.reader(f)); FileNotFoundError
\* and any other exception lead to sys.exit(1)
OpenBatch ==
  /\ mpc = "batch_open"
  /\ \E how \in {"read", "not_found", "error"} :
       IF how = "read"
       THEN /\ \E rows \in BatchFiles : lines' = rows
            /\ mpc' = "rows"
            /\ UNCHANGED exit_code
       ELSE Exit(1) /\ UNCHANGED lines
  /\ UNCHANGED <<ffmpeg_installed, argv, args, row_index, calls, batch_complete>>
  /\ UNCHANGED jobvars

\* one iteration of the loop over lines, up to the process_single_url call
RowStep ==
  /\ mpc = "rows"
  /\ row_index < Len(lines)
  /\ row_index' = row_index + 1
  /\ LET row == lines[row_index + 1]
     IN IF Len(row) = 0 \/ StripSpace(row[1]) = NoText
        THEN UNCHANGED <<mpc, calls>> /\ UNCHANGED jobvars
        ELSE LET link == StripSpace(row[1])
                 filename == IF Len(row) > 1 THEN StripSpace(row[2]) ELSE NoText
             IN Call(link, filename, "row_job")
  /\ UNCHANGED <<ffmpeg_installed, argv, args, lines, exit_code, batch_complete>>

\* batch mode: process_single_url has returned, its value is dropped; an
\* exception that escaped it is caught by `except Exception`: sys.exit(1)
RowReturned ==
  /\ mpc = "row_job"
  /\ pc = "idle"
  /\ IF ret = "raised" THEN Exit(1) ELSE mpc' = "rows" /\ UNCHANGED exit_code
  /\ UNCHANGED <<ffmpeg_installed, argv, args, lines, row_index, calls, batch_complete>>
  /\ UNCHANGED jobvars

\* the loop is over: "Batch processing complete.", main ends
BatchComplete ==
  /\ mpc = "rows"
  /\ row_index = Len(lines)
  /\ batch_complete' = TRUE
  /\ Exit(0)
  /\ UNCHANGED <<ffmpeg_installed, argv, args, lines, row_index, calls>>
  /\ UNCHANGED jobvars

\* the command lines of the runs
CommandLines == {
  <<>>,
  << <<"h","t","t","p",":","/","/","h","/","p","1","/">> >>,
  << <<"h","t","t","p",":","/","/","h","/","p","1","/">>, <<"-","o">>, <<"l","e","c">> >>,
  << <<"h","t","t","p",":","/","/","h","/">> >>,
  << <<"-","-","f","i","l","e">>, <<"l","i","s","t",".","c","s","v">> >>,
  << <<"h","t","t","p",":","/","/","h","/","p","1","/">>, <<"-","-","f","i","l","e">>, <<"l","i","s","t",".","c","s","v">> >>,
  << <<"-","o">>, <<"l","e","c">> >>,
  << <<"h","t","t","p",":","/","/","h","/","p","1","/">>, <<"h","t","t","p",":","/","/","h","/">> >>,
  << <<>> >>,
  << <<"h","t","t","p",":","/","/","h","/","p","1","/">>, <<"-","o">> >> }

\* the program started from the command line
InitMain ==
  /\ \E d \in InitialDests, w \in InitialWorkdirs : InitWith("idle", 0, NoText, NoText, d, w)
  /\ \E a \in CommandLines, f \in BOOLEAN : MainState("parse", a, f, <<>>)

NextMain ==
  \/ Parse
  \/ CheckFfmpeg
  \/ Dispatch
  \/ SingleReturned
  \/ \E r \in PageResponses : Resolve(r) /\ UNCHANGED resp /\ UNCHANGED <<mainvars, account_resp>>
  \/ Prepare /\ UNCHANGED <<mainvars, account_resp>>
  \/ Locate /\ UNCHANGED <<mainvars, account_resp>>
  \/ \E r \in ZipResponses : TryCandidate(r) /\ UNCHANGED attempts /\ UNCHANGED <<mainvars, account_resp>>
  \/ FetchExhausted /\ UNCHANGED <<mainvars, account_resp>>
  \/ Extract /\ UNCHANGED <<mainvars, account_resp>>
  \/ \E entries \in ListDir(workdirs, safe_recording_id) : Classify(entries) /\ UNCHANGED listing /\ UNCHANGED <<mainvars, account_resp>>
  \/ NormalizeVideo /\ UNCHANGED <<mainvars, account_resp>>
  \/ NormalizeAudio /\ UNCHANGED <<mainvars, account_resp>>
  \/ Merge /\ UNCHANGED <<mainvars, account_resp>>
  \/ Place /\ UNCHANGED <<mainvars, account_resp>>

SpecMain == InitMain /\ [][NextMain]_vars

\* The batch branch on its own: main at `if args.url: ... elif args.file:`
\* with a Namespace that has the attribute file, which the branch reads. No
\* add_argument of main defines it; this is the Namespace a parser with that
\* argument returns for a command line naming a batch file. ffmpeg was found.
InitBatch ==
  /\ InitWith("idle", 0, NoText, NoText, <<>>, <<>>)
  /\ mpc = "dispatch"
  /\ ffmpeg_installed = TRUE
  /\ argv = << <<"-","-","f","i","l","e">>, <<"l","i","s","t",".","c","s","v">> >>
  /\ args = [url |-> NoText, output |-> NoText, cookies |-> NoText, quality |-> <<"m","e","d","i","u","m">>,
             file |-> <<"l","i","s","t",".","c","s","v">>]
  /\ lines = <<>>
  /\ row_index = 0
  /\ exit_code = -1
  /\ calls = <<>>
  /\ batch_complete = FALSE

NextBatch ==
  \/ Dispatch
  \/ OpenBatch
  \/ RowStep
  \/ RowReturned
  \/ BatchComplete
  \/ \E r \in PageResponses : Resolve(r) /\ UNCHANGED resp /\ UNCHANGED <<mainvars, account_resp>>
  \/ Prepare /\ UNCHANGED <<mainvars, account_resp>>
  \/ Locate /\ UNCHANGED <<mainvars, account_resp>>
  \/ \E r \in ZipResponses : TryCandidate(r) /\ UNCHANGED attempts /\ UNCHANGED <<mainvars, account_resp>>
  \/ FetchExhausted /\ UNCHANGED <<mainvars, account_resp>>
  \/ Extract /\ UNCHANGED <<mainvars, account_resp>>
  \/ \E entries \in ListDir(workdirs, safe_recording_id) : Classify(entries) /\ UNCHANGED listing /\ UNCHANGED <<mainvars, account_resp>>
  \/ NormalizeVideo /\ UNCHANGED <<mainvars, account_resp>>
  \/ NormalizeAudio /\ UNCHANGED <<mainvars, account_resp>>
  \/ Merge /\ UNCHANGED <<mainvars, account_resp>>
  \/ Place /\ UNCHANGED <<mainvars, account_resp>>

SpecBatch == InitBatch /\ [][NextBatch]_vars

----------------------------------------------------------------------------
(* Properties of main *)

Exited == mpc = "exited"

\* C12: in single-URL mode the exit status is 0 only when the job succeeded
\* or was skipped as already existing (process_single_url returned True),
\* and is not 0 when the job failed.
C12_SingleUrlExitReflectsJob ==
  (Exited /\ calls # <<>>) => (exit_code = 0 <=> ret = "True")

\* the rows of the batch file that are not empty, as process_single_url calls
RECURSIVE CallsOfRows(_)
CallsOfRows(rows) ==
  IF rows = <<>> THEN <<>>
  ELSE LET front == CallsOfRows(SubSeq(rows, 1, Len(rows) - 1))
           row == rows[Len(rows)]
       IN IF Len(row) = 0 \/ StripSpace(row[1]) = NoText THEN front
          ELSE Append(front, << StripSpace(row[1]),
                                IF Len(row) > 1 THEN StripSpace(row[2]) ELSE NoText >>)

NamesBatchFile(tokens) ==
  \E k \in 1..(Len(tokens) - 1) : tokens[k] = <<"-","-","f","i","l","e">> /\ ~IsOptionToken(tokens[k + 1])

NamesUrl(tokens) ==
  \E k \in 1..Len(tokens) :
    /\ tokens[k] # <<>>
    /\ ~IsOptionToken(tokens[k])
    /\ k > 1 => ~IsOptionToken(tokens[k - 1])

\* every option of the command line has its value, no argument is empty and
\* there is at most one URL
WellFormed(tokens) ==
  /\ \A k \in 1..Len(tokens) :
       /\ tokens[k] # <<>>
       /\ IsOptionToken(tokens[k]) => (k < Len(tokens) /\ ~IsOptionToken(tokens[k + 1]))
  /\ Cardinality({k \in 1..Len(tokens) :
                    ~IsOptionToken(tokens[k]) /\ (k > 1 => ~IsOptionToken(tokens[k - 1]))}) <= 1

Accepted == DOMAIN args # {} /\ exit_code # 2

Rejected2 == Exited /\ exit_code = 2 /\ DOMAIN args = {}

\* C14: a command line naming only a batch file is accepted and does not go
\* to single-URL mode, one naming only a URL is accepted and goes to
\* single-URL mode on that URL, one naming both or neither is rejected.
C14_ExactlyOneOfUrlOrFile ==
  (mpc # "parse" /\ WellFormed(argv)) =>
    CASE NamesBatchFile(argv) /\ ~NamesUrl(argv) -> Accepted /\ mpc # "single" /\ calls = <<>>
      [] NamesUrl(argv) /\ ~NamesBatchFile(argv) ->
           /\ Accepted
           /\ args.url = argv[1]
           /\ mpc \in {"ffmpeg", "dispatch", "single", "exited"}
           /\ calls # <<>> => calls[1][1] = argv[1]
      [] OTHER -> Rejected2

\* C15: when ffmpeg is not found the run ends at the check of main with
\* status 1 (or earlier, at the parser, with status 2): no
\* process_single_url call, no HTTP request, no ffmpeg call, and the
\* download directory as it was.
C15_NoJobWithoutFfmpeg ==
  ~ffmpeg_installed =>
    /\ calls = <<>> /\ jobs = 0 /\ pc = "idle"
    /\ netlog = <<>> /\ ffcalls = <<>>
    /\ dest = destAtStart /\ dest \in InitialDests /\ workdirs \in InitialWorkdirs
    /\ mpc \in {"parse", "ffmpeg", "exited"}
    /\ Exited => (exit_code = 1 <=> DOMAIN args # {}) /\ exit_code \in {1, 2}

\* a well-formed single-URL command line, ffmpeg missing
C15_Witness ==
  /\ ~ffmpeg_installed
  /\ Exited /\ exit_code = 1
  /\ DOMAIN args # {}
  /\ args.url = <<"h","t","t","p",":","/","/","h","/","p","1","/">>
  /\ calls = <<>>

----------------------------------------------------------------------------
(* Properties of the job: reuse, exceptions, transcoding order, result *)

\* the job is past the test of os.path.exists(zip_path) and found the archive
\* there: no candidate list was built
ArchiveReused == pc \notin {"idle", "resolve", "prepare", "locate"} /\ zip_urls = <<>>

\* C16 (as claimed): when the archive is already in the working directory the
\* job downloads nothing and the archive has been extracted when
\* classification starts, so that the scan sees its fragments.
C16_ReusedArchiveExtracted ==
  (ArchiveReused /\ pc = "classify") =>
    /\ \A k \in 1..Len(netlog) : netlog[k].req # "zip"
    /\ workdirs[safe_recording_id].zip.archive.files \subseteq workdirs[safe_recording_id].entries

\* C16 (amended): when the archive is already in the working directory the
\* job sends no request but the identifier probe, and goes from the test of
\* zip_path straight to classification: the archive is not extracted, the
\* working directory is left as it was, and the scan sees only the files
\* that were already there.
C16_ReusedArchiveNotExtracted ==
  /\ [](ArchiveReused => (netlog = <<Request("id_probe", url)>> /\ tried = 0))
  /\ [][ (pc = "locate" /\ ZipExists(workdirs, safe_recording_id))
           => (pc' = "classify" /\ UNCHANGED <<workdirs, netlog, zip_urls, tried>>) ]_vars
  /\ [][ (pc = "classify" /\ ArchiveReused)
           => \E entries \in Orders(workdirs[safe_recording_id].entries
                                      \cup {safe_recording_id \o <<".","z","i","p">>}) :
                media_streams' = FindMediaStreams(safe_recording_id, entries) ]_vars

\* a valid archive with a screenshare fragment is on disk, not extracted: the
\* job ends for want of a screenshare stream without any download
C16_Witness ==
  /\ JobEnded /\ outcome = "MissingRequiredStream"
  /\ zip_urls = <<>> /\ tried = 0
  /\ netlog = <<Request("id_probe", url)>>
  /\ recording_id = <<"1","2">>

\* C17: an exception in one download attempt, on connect or while the body
\* is streamed, fails that candidate only: the loop goes on with the next
\* candidate; the archive handed to extraction is exactly the body of the
\* accepted candidate, whatever earlier attempts left at zip_path; when all
\* candidates fail the job fails and nothing was extracted.
C17_ExceptionFailsOnlyThatCandidate ==
  /\ \A k \in 1..Len(attempts) :
       attempts[k].response.raises # "none" =>
         /\ attempts[k].url = zip_urls[k]
         /\ IF k < Len(attempts) THEN attempts[k + 1].url = zip_urls[k + 1]
            ELSE IF k < Len(zip_urls) THEN pc = "fetch" /\ outcome = "none"
            ELSE pc = "fetch" \/ (JobEnded /\ outcome = "LocationExhausted")
         /\ attempts[k].response.raises = "connect" => attempts[k].zip_after = attempts[k].zip_before
  /\ pc = "extract" =>
       LET accepted == attempts[Len(attempts)]
       IN /\ accepted.response.raises = "none"
          /\ accepted.zip_after = ZipFile(TRUE, accepted.response.archive)
          /\ workdirs[safe_recording_id].zip = accepted.zip_after
          /\ workdirs[safe_recording_id].entries = {}
  /\ (JobEnded /\ outcome = "LocationExhausted") =>
       /\ ret = "False"
       /\ Len(attempts) = Len(zip_urls)
       /\ safe_recording_id \in DOMAIN workdirs => workdirs[safe_recording_id].entries = {}

\* connect fails, then a body breaks off and leaves a partial file, then an
\* archive arrives whole
C17_Witness ==
  /\ pc = "extract"
  /\ Len(attempts) = 3
  /\ attempts[1].response.raises = "connect"
  /\ attempts[2].response.raises = "stream"
  /\ attempts[2].zip_after.present /\ ~attempts[2].zip_after.complete
  /\ attempts[3].zip_before = attempts[2].zip_after
  /\ workdirs[safe_recording_id].zip = ZipFile(TRUE, [kind |-> "valid", files |-> {ss1}])

TranscodingOrder == <<"normalize_video_stream", "normalize_audio_stream", "merge_normalized_streams">>

\* C18: the transcoding calls of a job are a prefix of normalize-video,
\* normalize-audio, merge, each made once; every call but the last one made
\* succeeded; a call that failed is the last and the job ended Failed.
C18_TranscodingInOrder ==
  /\ Len(ffcalls) <= 3
  /\ \A k \in 1..Len(ffcalls) :
       /\ ffcalls[k].op = TranscodingOrder[k]
       /\ k < Len(ffcalls) => ffcalls[k].ok
       /\ ~ffcalls[k].ok => (JobEnded /\ outcome = "TranscodeFailure" /\ ret = "False")
  /\ pc = "video" => Len(ffcalls) = 0
  /\ pc = "audio" => Len(ffcalls) = 1
  /\ pc = "merge" => Len(ffcalls) = 2
  /\ pc = "place" => Len(ffcalls) = 3
  /\ outcome = "TranscodeFailure" => (ffcalls # <<>> /\ ~ffcalls[Len(ffcalls)].ok)

\* the audio pass fails: no merge
C18_Witness ==
  /\ JobEnded /\ outcome = "TranscodeFailure"
  /\ Len(ffcalls) = 2
  /\ ffcalls[1].ok /\ ~ffcalls[2].ok

ProbeFailed(r) == r.kind \in {"net_error", "http_error"}

AccountProbed == account_resp.kind # "none"

HoldsAccountId(text) == ReSearch(account_pattern, text) # NoText

WithoutContentShapes ==
  FirstOccurrencesOf(zip_urls, GenerationOrder(UrlBase(url), recording_id, NoText))

\* the job does not fail at the probes unless a fallback is exhausted
FailsOnlyWhenExhausted ==
  /\ (Resolved /\ ProbeFailed(resp)) =>
       /\ <<recording_id, id_type>> = PathIdFallback(url)
       /\ recording_id # NoText => outcome # "ResolutionFailure"
  /\ outcome = "ResolutionFailure" => (MatchingPatterns = {} /\ PathIdFallback(url)[1] = NoText)
  /\ AccountProbed => (pc = "fetch" \/ tried > 0)
  /\ outcome = "LocationExhausted" => tried = Len(zip_urls)
  /\ JobEnded => outcome \in {"ResolutionFailure", "LocationExhausted"}

C20_TrueOnlyWithDestFile ==
  /\ ret = "True" =>
       /\ JobEnded
       /\ outcome \in {"SkippedExisting", "Done"}
       /\ output_filename \in DOMAIN dest
       /\ outcome = "SkippedExisting" => output_filename \in DOMAIN destAtStart
       /\ outcome = "Done" => (AllTranscodingSucceeded /\ dest[output_filename] = jobs)
  /\ (JobEnded /\ outcome \notin {"SkippedExisting", "Done"} /\ ~AllTranscodingSucceeded) =>
       ret = "False"

====
